---- MODULE Spec2Model ----
(***************************************************************************)
(* Session lifecycle of the wizard backend: the in-memory SessionStore     *)
(* (services/session_store.py), the chat turn of the orchestrator          *)
(* (services/orchestrator.py) and the confirm endpoint (api/wizard.py).    *)
(*                                                                         *)
(* A WizardSession object is identified with its session_id: the code      *)
(* never copies a session, so one id names one object for its whole life.  *)
(* heap[id] is the object, sessions is the key order of the dict           *)
(* SessionStore._sessions (Python dicts keep insertion order, and min()    *)
(* returns the first minimal key in that order).                           *)
(***************************************************************************)
EXTENDS Integers, Sequences, FiniteSets, TLC

\* ---- bounds of the model ------------------------------------------------
MaxIds == 3        \* session objects ever constructed in one behaviour
MaxChats == 1      \* of these, sessions constructed in a behaviour of Spec
MaxBurstRounds == 1 \* tool rounds of a turn in a behaviour of SpecBurst
MaxTurns == 2      \* chat turns in flight at once
MaxCount == 2      \* stands for settings.session_max_count
Ttl == 1           \* stands for settings.session_ttl_minutes, in ticks
MaxTerms == 1      \* integration terms a recommendation request carries
MaxFields == 2     \* requirement fields a recommendation request carries
MaxRaw == 3        \* terms of a list handed to resolve_integrations
MaxUses == 2       \* increment_usage requests in flight at once
MaxVerifies == 3   \* verify requests for one magic-link token

\* ---- program constants --------------------------------------------------
max_tool_rounds == 5

Ids == 1..MaxIds
AppIds == 1..(MaxChats + 1)   \* the ids of Spec's sessions and one that names none
Turns == 1..MaxTurns

SessionStatus == <<"gathering", "recommending", "confirmed", "generating", "complete">>

\* position of a status in the declared order of the enum
Rank(s) == CHOOSE i \in 1..Len(SessionStatus) : SessionStatus[i] = s

FrameworkChoice ==
  {"langgraph", "crewai", "autogen", "semantic-kernel", "vercel-ai", "rig", "adk-go"}

\* frameworks for which template_registry registers at least one template
TemplateFrameworks == {"crewai", "langgraph", "autogen"}

\* frameworks the collaborator's recommendation requests lead to in the model
RecFrameworks == {"langgraph", "rig"}

VARIABLES
  sessions,    \* SessionStore._sessions: sequence of keys in insertion order
  heap,        \* the WizardSession objects, by session_id
  nextId,      \* next identifier uuid4 hands out
  turns,       \* chat turns suspended in process_message
  resp,        \* outcome of the call that ended last
  api_key,     \* settings.anthropic_api_key is non-empty
  reqs_extra,  \* ExtractedRequirements answers reads of custom_agents / repo_intent
  wizard,      \* requirements, recommendation and status of the session that
               \* the recommendation requests of SpecMerge are merged into
  probe,       \* a call of a function of services/recommender.py: its
               \* argument and, once it has returned, its result
  rounds,      \* the chat turns of SpecRounds on the session `wizard`, and
               \* the messages of that session
  db           \* the user document and the magic-link token document of one
               \* user, with the requests of api/billing.py and api/auth.py
               \* suspended between two database calls

vars == <<sessions, heap, nextId, turns, resp, api_key, reqs_extra, wizard, probe, rounds, db>>

\* datetime.now(timezone.utc), in ticks.  Times are kept relative to the
\* present: the clock reads 0 in every state and a Tick moves the updated_at
\* of every session one tick into the past.
now == 0

\* WizardSession() : status gathering, no recommendation, updated_at from
\* datetime.utcnow(), which carries no tzinfo (aware = FALSE).
WizardSession(t) ==
  [status |-> "gathering", recommendation |-> "none", aware |-> FALSE, updated_at |-> t]

NoSession ==
  [status |-> "gathering", recommendation |-> "none", aware |-> FALSE, updated_at |-> 0]

IdleTurn ==
  [pc |-> "idle", session |-> 0, recommendation |-> "none", round |-> 0, calls |-> 0]

\* what the caller of the last step saw.  named, reply, recommendation,
\* appended and trace describe a step of a chat turn and are empty otherwise.
Response(op, sid, code, detail, listed) ==
  [op |-> op, sid |-> sid, code |-> code, detail |-> detail, listed |-> listed,
   named |-> 0, reply |-> "", recommendation |-> "none",
   appended |-> <<>>, trace |-> <<>>]

\* a step of a chat turn.  op is "chat" when the step ends the turn (status
\* is then ChatResponse.status) and "await" when the turn suspends; named is
\* the session_id a request began with (0: none, or a later step of the
\* turn); reply and rec are ChatResponse.reply and ChatResponse.recommendation;
\* appended lists the roles of the messages the step appended to the
\* transcript; trace lists, in order, the events the streaming transport
\* yields in the step and "exec" for each tool executed.
ChatStep(op, named, sid, code, status, reply, rec, appended, trace) ==
  [Response(op, sid, code, status, {}) EXCEPT
     !.named = named, !.reply = reply, !.recommendation = rec,
     !.appended = appended, !.trace = trace]

Keys(seq) == {seq[i] : i \in 1..Len(seq)}

Remove(seq, id) == LET Keep(k) == k # id IN SelectSeq(seq, Keep)

\* objects neither stored nor held by a suspended turn are unreachable: no
\* handler can name them again, and they are dropped from the heap
Collect(keys, objs, trns) ==
  [i \in Ids |->
     IF i \in Keys(keys) \/ (\E t \in Turns : trns[t].pc = "calling" /\ trns[t].session = i)
     THEN objs[i] ELSE NoSession]

\* ---- SessionStore helpers ------------------------------------------------

\* `datetime.now(timezone.utc) - session.updated_at` raises TypeError when
\* updated_at is naive
AgeRaises(s) == ~s.aware

_is_expired(s, t) == t - s.updated_at > Ttl

\* _evict_expired: the list comprehension raises before anything is deleted
EvictExpiredRaises(keys, objs) == \E id \in Keys(keys) : AgeRaises(objs[id])

_evict_expired(keys, objs, t) ==
  LET Live(id) == ~_is_expired(objs[id], t) IN SelectSeq(keys, Live)

\* min(self._sessions, key=updated_at) compares naive with aware datetimes
MinRaises(keys, objs) ==
  \E a, b \in Keys(keys) : objs[a].aware # objs[b].aware

\* first key, in dict order, with the smallest updated_at
OldestId(keys, objs) ==
  keys[CHOOSE i \in 1..Len(keys) :
         \A j \in 1..Len(keys) :
            /\ objs[keys[i]].updated_at <= objs[keys[j]].updated_at
            /\ (j < i => objs[keys[j]].updated_at > objs[keys[i]].updated_at)]

RECURSIVE _evict_oldest(_, _)
_evict_oldest(keys, objs) ==
  IF Len(keys) >= MaxCount /\ Len(keys) > 0
  THEN _evict_oldest(Remove(keys, OldestId(keys, objs)), objs)
  ELSE keys

EvictOldestRaises(keys, objs) == Len(keys) >= MaxCount /\ MinRaises(keys, objs)

\* ---- SessionStore public API, as functions of the store's state ---------

CreateRaises(keys, objs, t) ==
  \/ EvictExpiredRaises(keys, objs)
  \/ EvictOldestRaises(_evict_expired(keys, objs, t), objs)

\* keys of the dict after create() has stored the session `id`
create(keys, objs, t, id) ==
  Append(_evict_oldest(_evict_expired(keys, objs, t), objs), id)

\* get(): "TypeError", "absent" (unknown or expired) or "found"
GetResult(keys, objs, t, id) ==
  IF id \notin Keys(keys) THEN "absent"
  ELSE IF AgeRaises(objs[id]) THEN "TypeError"
  ELSE IF _is_expired(objs[id], t) THEN "absent"
  ELSE "found"

\* get() that reports an expired session absent but leaves it in the dict
get_KeepsExpired(keys, objs, t, id) == keys

get(keys, objs, t, id) ==
  IF id \in Keys(keys) /\ ~AgeRaises(objs[id]) /\ _is_expired(objs[id], t)
  THEN Remove(keys, id)
  ELSE keys

\* save(): stamps updated_at with an aware now and upserts the key
saveObj(s, t) == [s EXCEPT !.aware = TRUE, !.updated_at = t]

saveKeys(keys, id) == IF id \in Keys(keys) THEN keys ELSE Append(keys, id)

\* ---- requirements of a session -------------------------------------------

\* Python's None
None == "None"

\* ExtractedRequirements(): every field at its default.  List fields are
\* sequences; custom_agents is the attribute _extract_recommendation sets.
ExtractedRequirements ==
  [use_case |-> None, description |-> None, integrations |-> <<>>,
   capabilities |-> <<>>, scale |-> None, compliance |-> <<>>,
   framework_preference |-> None, deployment_preference |-> None,
   repo_analysis |-> None, custom_agents |-> <<>>]

\* session.recommendation while it is None, or the None that
\* _extract_recommendation returns: a record whose fields are all empty
NoRecommendation ==
  [framework |-> None, agents |-> <<>>, mcp_servers |-> <<>>,
   deployment |-> None, estimated_monthly_cost |-> None]

\* the requirements, recommendation and status of a new WizardSession
NewWizard ==
  [requirements |-> ExtractedRequirements, recommendation |-> NoRecommendation,
   status |-> "gathering"]

\* no call of a recommender function is under way
NoCall ==
  [fn |-> "none", arg |-> <<>>, returned |-> FALSE, raised |-> "None",
   result |-> <<>>]

\* the two chat turns of SpecRounds
TwoTurns == {1, 2}

\* a turn of SpecRounds that has not begun.  `recommendation` is the local
\* variable of process_message, `results` the tool results appended to
\* api_messages; `before`, `alone` and `merged` record the session as the
\* turn found it, whether the turn overlapped no other, and the requests
\* the turn merged
IdleRound ==
  [pc |-> "idle", round |-> 0, recommendation |-> NoRecommendation,
   results |-> <<>>, reply |-> "", before |-> NewWizard, alone |-> TRUE,
   merged |-> {}, analysed |-> FALSE]

\* no turn has begun and session.messages is empty
NoRounds == [messages |-> <<>>, turn |-> [t \in TwoTurns |-> IdleRound]]

\* settings.free_usage_limit
free_usage_limit == 10

Uses == 1..MaxUses

Verifies == 1..MaxVerifies

\* a user on the free plan who has used nothing, and the magic-link token
\* create_magic_token stored for that user, unused and not yet expired.
\* `allowed` and `accepted` count the allowed=true answers of
\* increment_usage and the emails verify_magic_token returned.
NewDb ==
  [usage_count |-> 0, allowed |-> 0,
   use |-> [h \in Uses |-> [pc |-> "idle", usage_count |-> 0]],
   used |-> FALSE, expired |-> FALSE, accepted |-> 0,
   verify |-> [h \in Verifies |-> "idle"]]

\* ---- initial state -------------------------------------------------------

Init ==
  /\ sessions = <<>>
  /\ heap = [i \in Ids |-> NoSession]
  /\ nextId = 1
  /\ turns = [t \in Turns |-> IdleTurn]
  /\ resp = Response("init", 0, 0, "", {})
  /\ api_key \in BOOLEAN
  /\ reqs_extra \in BOOLEAN
  /\ wizard = NewWizard
  /\ probe = NoCall
  /\ rounds = NoRounds
  /\ db = NewDb

\* an updated_at one tick further in the past.  Ages beyond Ttl + 1 are not
\* told apart: such a session is expired whatever its age, and create() takes
\* the minimum of updated_at only over sessions _evict_expired has kept.
Past(s) == [s EXCEPT !.updated_at = IF now - @ <= Ttl THEN @ - 1 ELSE @]

\* a tick of the clock.  The updated_at of an object that is neither stored
\* nor held by a turn is never read again before save() overwrites it.
Tick ==
  /\ heap' = [i \in Ids |->
               IF i \in Keys(sessions) \/ (\E t \in Turns : turns[t].pc = "calling" /\ turns[t].session = i)
               THEN Past(heap[i]) ELSE heap[i]]
  /\ resp' = Response("tick", 0, 0, "", {})
  /\ UNCHANGED <<sessions, nextId, turns, api_key, reqs_extra, wizard, probe, rounds, db>>

\* ---- the store called directly (its five operations) --------------------

StoreCreate ==
  /\ nextId <= MaxIds
  /\ IF CreateRaises(sessions, heap, now)
     THEN /\ resp' = Response("create", 0, 500, "TypeError", {})
          /\ UNCHANGED <<sessions, heap, nextId>>
     ELSE /\ sessions' = create(sessions, heap, now, nextId)
          /\ heap' = [heap EXCEPT ![nextId] = WizardSession(now)]
          /\ nextId' = nextId + 1
          /\ resp' = Response("create", nextId, 200, "", {})
  /\ UNCHANGED <<turns, api_key, reqs_extra, wizard, probe, rounds, db>>

StoreGet(id) ==
  /\ LET r == GetResult(sessions, heap, now, id) IN
       resp' = Response("get", id, IF r = "TypeError" THEN 500 ELSE 200, r, {})
  /\ sessions' = get(sessions, heap, now, id)
  /\ UNCHANGED <<heap, nextId, turns, api_key, reqs_extra, wizard, probe, rounds, db>>

StoreSave(id) ==
  /\ id < nextId
  /\ heap' = [heap EXCEPT ![id] = saveObj(heap[id], now)]
  /\ sessions' = saveKeys(sessions, id)
  /\ resp' = Response("save", id, 200, "", {})
  /\ UNCHANGED <<nextId, turns, api_key, reqs_extra, wizard, probe, rounds, db>>

StoreList ==
  /\ IF EvictExpiredRaises(sessions, heap)
     THEN /\ resp' = Response("list", 0, 500, "TypeError", {})
          /\ UNCHANGED sessions
     ELSE /\ sessions' = _evict_expired(sessions, heap, now)
          /\ resp' = Response("list", 0, 200, "", Keys(sessions'))
  /\ UNCHANGED <<heap, nextId, turns, api_key, reqs_extra, wizard, probe, rounds, db>>

StoreDelete(id) ==
  /\ sessions' = Remove(sessions, id)
  /\ resp' = Response("delete", id, 200,
                      IF id \in Keys(sessions) THEN "deleted" ELSE "absent", {})
  /\ UNCHANGED <<heap, nextId, turns, api_key, reqs_extra, wizard, probe, rounds, db>>

StoreNext ==
  \/ Tick
  \/ StoreCreate
  \/ \E id \in Ids : StoreGet(id)
  \/ \E id \in Ids : StoreSave(id)
  \/ StoreList
  \/ \E id \in Ids : StoreDelete(id)

\* the store's tests run with a configured key and need no requirements model
InitStore == Init /\ api_key /\ reqs_extra

SpecStore == InitStore /\ [][StoreNext]_vars

\* ---- one chat turn: process_message / process_message_stream ------------

\* identifiers a caller can name: those a response has carried (every save
\* of a turn is followed by the response that returns session_id) and
\* strings that name no stored session
Nameable(id) == id \notin Keys(sessions) \/ heap[id].aware

InFlight == {t \in Turns : turns[t].pc = "calling"}

\* "Get or create session", the user message, the API-key guard; the turn
\* then suspends in its first collaborator call.  sid = 0 is a request
\* without session_id.
TurnBegin(t, sid) ==
  LET found  == sid # 0 /\ GetResult(sessions, heap, now, sid) = "found"
      keys1  == IF sid = 0 THEN sessions ELSE get(sessions, heap, now, sid)
      raises == ~found /\ CreateRaises(keys1, heap, now)
      id     == IF found THEN sid ELSE nextId
      keys2  == IF found THEN keys1 ELSE create(keys1, heap, now, nextId)
      objs2  == IF found THEN heap ELSE [heap EXCEPT ![nextId] = WizardSession(now)]
  IN
  /\ turns[t].pc = "idle"
  /\ sid # 0 => Nameable(sid)
  /\ sid # nextId      \* no request names the identifier uuid4 hands out next
  /\ found \/ nextId <= MaxIds
  /\ IF raises
     THEN \* sessions.create() raised outside the try block
          /\ sessions' = keys1
          /\ heap' = Collect(keys1, heap, turns)
          /\ resp' = ChatStep("chat", sid, 0, 500, "TypeError", "", "none", <<>>, <<>>)
          /\ UNCHANGED <<nextId, turns>>
     ELSE /\ nextId' = IF found THEN nextId ELSE nextId + 1
          /\ IF ~api_key
             THEN \* canned reply, save, return
                  /\ sessions' = saveKeys(keys2, id)
                  /\ heap' = Collect(sessions', [objs2 EXCEPT ![id] = saveObj(objs2[id], now)], turns)
                  /\ resp' = ChatStep("chat", sid, id, 200, objs2[id].status, "no-key",
                                       "none", <<"user", "assistant">>, <<"delta", "done">>)
                  /\ UNCHANGED turns
             ELSE /\ sessions' = keys2
                  /\ turns' = [turns EXCEPT ![t] =
                       [pc |-> "calling", session |-> id,
                        recommendation |-> "none", round |-> 0, calls |-> 1]]
                  /\ heap' = Collect(keys2, objs2, turns')
                  /\ resp' = ChatStep("await", sid, id, 0, "", "", "none", <<"user">>, <<>>)
  /\ UNCHANGED <<api_key, reqs_extra, wizard, probe, rounds, db>>

\* outcomes of the round's get_framework_recommendation calls for the local
\* variable `recommendation`: "keep" (tool not called), "none" (error payload
\* or failed extraction) or the framework of the recommendation built.
\* build_recommendation reads reqs.custom_agents, so it builds one only when
\* ExtractedRequirements answers that read.
ToolOutcomes == {"keep", "none"} \cup (IF reqs_extra THEN RecFrameworks ELSE {})

\* `for tool_round in range(max_tool_rounds)`: after `round` rounds the loop
\* makes another collaborator call
LoopCalls(round) == round < max_tool_rounds

\* a collaborator response with tool_use blocks: the status event of the
\* block is yielded while the response streams, then the tools run, their
\* results are appended, and the loop suspends in the next call or, after
\* the last round, falls into its else branch
TurnTools(t, outcome) ==
  /\ turns[t].pc = "calling"
  /\ LoopCalls(turns[t].round)
  /\ outcome \in ToolOutcomes
  /\ turns' = [turns EXCEPT ![t].round = @ + 1,
                            ![t].calls = IF LoopCalls(turns[t].round + 1) THEN @ + 1 ELSE @,
                            ![t].recommendation = IF outcome = "keep" THEN @ ELSE outcome]
  /\ resp' = ChatStep("await", 0, turns[t].session, 0, "", "", "none", <<>>,
                      <<"status", "exec">>)
  /\ UNCHANGED <<sessions, heap, nextId, api_key, reqs_extra, wizard, probe, rounds, db>>

\* a turn that stores the recommendation and leaves the status alone
Finalize_StatusKept(s, rec) ==
  IF rec # "none" THEN [s EXCEPT !.recommendation = rec] ELSE s

\* status and recommendation of the session as the turn's last lines leave it
Finalize(s, rec) ==
  IF rec # "none"
  THEN [s EXCEPT !.status = "recommending", !.recommendation = rec]
  ELSE s

\* a reply that is the collaborator's text whatever the round
ReplyText_AlwaysText(round) == "text"

\* reply_text after the loop: the text of the response that asked for no
\* tool, or the summary message of the loop's else branch
ReplyText(round) == IF LoopCalls(round) THEN "text" ELSE "summary"

\* a response without tool_use blocks, or the for-else after the last round:
\* assistant reply, recommendation, save, response
TurnReply(t) ==
  LET id == turns[t].session
      s  == Finalize(heap[id], turns[t].recommendation)
  IN
  /\ turns[t].pc = "calling"
  /\ heap' = [heap EXCEPT ![id] = saveObj(s, now)]
  /\ sessions' = saveKeys(sessions, id)
  /\ turns' = [turns EXCEPT ![t] = IdleTurn]
  /\ resp' = ChatStep("chat", 0, id, 200, s.status, ReplyText(turns[t].round),
                      turns[t].recommendation, <<"assistant">>, <<"delta", "done">>)
  /\ UNCHANGED <<nextId, api_key, reqs_extra, wizard, probe, rounds, db>>

\* the exceptions the try block tells apart
Exceptions == {"AuthenticationError", "Exception"}

\* the collaborator call raised: error reply, save, response
TurnError(t, exc) ==
  LET id == turns[t].session IN
  /\ turns[t].pc = "calling"
  /\ LoopCalls(turns[t].round)
  /\ heap' = [heap EXCEPT ![id] = saveObj(heap[id], now)]
  /\ sessions' = saveKeys(sessions, id)
  /\ turns' = [turns EXCEPT ![t] = IdleTurn]
  /\ resp' = ChatStep("chat", 0, id, 200, heap[id].status,
                      IF exc = "AuthenticationError" THEN "invalid-key" ELSE "generic",
                      "none", <<"assistant">>, <<"delta", "done">>)
  /\ UNCHANGED <<nextId, api_key, reqs_extra, wizard, probe, rounds, db>>

\* ---- POST /wizard/sessions/{id}/confirm ----------------------------------

\* an except branch without the roll back
AfterGenerate_NoRollback(raised) == IF raised THEN "generating" ELSE "complete"

\* status the try block of confirm_and_generate ends with, entered in
\* "generating": "confirmed" is the except branch's roll back
AfterGenerate(raised) == IF raised THEN "confirmed" ELSE "complete"

\* `session.requirements.repo_intent` is the first read of the try block
GenerateMayRaise == {TRUE} \cup (IF reqs_extra THEN {FALSE} ELSE {})

\* a status check that turns away gathering only
ConfirmGuard_GatheringOnly(s) ==
  IF s.status = "gathering" THEN "status"
  ELSE IF s.recommendation = "none" THEN "no-recommendation"
  ELSE IF s.recommendation \notin TemplateFrameworks THEN "no-template"
  ELSE "generate"

ConfirmGuard(s) ==
  IF s.status \notin {"confirmed", "recommending"} THEN "status"
  ELSE IF s.recommendation = "none" THEN "no-recommendation"
  ELSE IF s.recommendation \notin TemplateFrameworks THEN "no-template"
  ELSE "generate"

confirm_and_generate(sid, raised) ==
  LET r == GetResult(sessions, heap, now, sid)
      s == heap[sid]
      g == ConfirmGuard(s)
  IN
  /\ Nameable(sid)
  /\ raised \in GenerateMayRaise
  /\ sessions' = get(sessions, heap, now, sid)
  /\ IF r # "found"
     THEN /\ resp' = Response("confirm", sid, 404, "Session not found", {})
          /\ heap' = Collect(sessions', heap, turns)
     ELSE IF g = "status"
     THEN /\ resp' = Response("confirm", sid, 400, s.status, {})
          /\ UNCHANGED heap
     ELSE IF g = "no-recommendation"
     THEN /\ resp' = Response("confirm", sid, 400, "No recommendation", {})
          /\ UNCHANGED heap
     ELSE IF g = "no-template"
     THEN /\ resp' = Response("confirm", sid, 500, "No template", {})
          /\ UNCHANGED heap
     ELSE \* status generating is saved, the package is generated, and the
          \* outcome is saved, all without a suspension point
          /\ heap' = [heap EXCEPT ![sid] =
               saveObj([s EXCEPT !.status = AfterGenerate(raised)], now)]
          /\ resp' = IF raised
                     THEN Response("confirm", sid, 500, "Code generation failed", {})
                     ELSE Response("confirm", sid, 200, "package", {})
  /\ UNCHANGED <<nextId, turns, api_key, reqs_extra, wizard, probe, rounds, db>>

\* ---- GET /wizard/sessions, GET and DELETE /wizard/sessions/{id} ---------

list_sessions ==
  /\ IF EvictExpiredRaises(sessions, heap)
     THEN /\ resp' = Response("list", 0, 500, "TypeError", {})
          /\ UNCHANGED <<sessions, heap>>
     ELSE /\ sessions' = _evict_expired(sessions, heap, now)
          /\ heap' = Collect(sessions', heap, turns)
          /\ resp' = Response("list", 0, 200, "", Keys(sessions'))
  /\ UNCHANGED <<nextId, turns, api_key, reqs_extra, wizard, probe, rounds, db>>

get_session(id) ==
  /\ Nameable(id)
  /\ sessions' = get(sessions, heap, now, id)
  /\ heap' = Collect(sessions', heap, turns)
  /\ resp' = IF GetResult(sessions, heap, now, id) = "found"
             THEN Response("get", id, 200, heap[id].status, {})
             ELSE Response("get", id, 404, "Session not found", {})
  /\ UNCHANGED <<nextId, turns, api_key, reqs_extra, wizard, probe, rounds, db>>

delete_session(id) ==
  /\ Nameable(id)
  /\ sessions' = Remove(sessions, id)
  /\ heap' = Collect(sessions', heap, turns)
  /\ resp' = IF id \in Keys(sessions)
             THEN Response("delete", id, 200, "deleted", {})
             ELSE Response("delete", id, 404, "Session not found", {})
  /\ UNCHANGED <<nextId, turns, api_key, reqs_extra, wizard, probe, rounds, db>>

\* ---- the application: turns, confirm and the session endpoints ----------

\* one turn at a time, with confirm and the session endpoints
Next ==
  \/ Tick
  \/ \E sid \in {0} \cup AppIds :
        /\ nextId <= MaxChats \/ (sid # 0 /\ GetResult(sessions, heap, now, sid) = "found")
        /\ TurnBegin(1, sid)
  \/ \E o \in {"keep", "none"} \cup RecFrameworks : TurnTools(1, o)
  \/ TurnReply(1)
  \/ \E exc \in Exceptions : TurnError(1, exc)
  \/ \E sid \in AppIds, raised \in BOOLEAN : confirm_and_generate(sid, raised)
  \/ list_sessions
  \/ \E id \in AppIds : get_session(id)
  \/ \E id \in AppIds : delete_session(id)

Spec == Init /\ [][Next]_vars

\* a pending collaborator call of the turn returns or raises
TurnStep ==
  \/ \E o \in {"keep", "none"} \cup RecFrameworks : TurnTools(1, o)
  \/ TurnReply(1)
  \/ \E exc \in Exceptions : TurnError(1, exc)

\* chat turns alone, one at a time
TurnNext ==
  \/ Tick
  \/ \E sid \in {0} \cup AppIds :
        /\ nextId <= MaxChats \/ (sid # 0 /\ GetResult(sessions, heap, now, sid) = "found")
        /\ TurnBegin(1, sid)
  \/ TurnStep

\* every collaborator call comes to an end (the client's request times out
\* if nothing else happens)
SpecTurn == Init /\ [][TurnNext]_vars /\ WF_vars(TurnStep)

\* a burst of turns in flight together, with the session endpoints; the
\* collaborator is configured and asks for no recommendation
BurstNext ==
  \/ Tick
  \/ \E t \in Turns, sid \in {0} \cup Ids : TurnBegin(t, sid)
  \/ \E t \in Turns : turns[t].round < MaxBurstRounds /\ TurnTools(t, "keep")
  \/ \E t \in Turns : TurnReply(t)
  \/ \E t \in Turns, exc \in Exceptions : TurnError(t, exc)
  \/ list_sessions
  \/ \E id \in Ids : get_session(id)
  \/ \E id \in Ids : delete_session(id)

InitBurst == Init /\ api_key /\ reqs_extra

SpecBurst == InitBurst /\ [][BurstNext]_vars

\* ---- recommendation requests: services/recommender.py, claude_tools.py ---

DeploymentTarget == {"local", "cloud", "export"}

\* raw integration terms a request carries: a synonym that needs case folding
\* and trimming, and a term the synonym table does not know
Terms == {"CRM ", "fax"}

\* every string the list fields hold in the model, in the order Python's
\* sorted() puts them (by code point)
Alphabet == <<"CRM ", "fax", "hipaa", "rag">>

Range(seq) == {seq[i] : i \in 1..Len(seq)}

\* sorted(existing) for a set of strings
sorted(S) == SelectSeq(Alphabet, LAMBDA x : x \in S)

\* bool(v) for a string or None
Truthy(v) == v \notin {None, ""}

\* ---- strings ---------------------------------------------------------------

\* the characters of every string whose characters the model looks at: the
\* triggers of _USECASE_FRAMEWORK, the use cases and integration terms of
\* the model, and the server ids of SYSTEM_PROMPT
Chars ==
  ("customer_service" :> <<"c", "u", "s", "t", "o", "m", "e", "r", "_", "s", "e", "r", "v", "i", "c", "e">>) @@
  ("customer service" :> <<"c", "u", "s", "t", "o", "m", "e", "r", " ", "s", "e", "r", "v", "i", "c", "e">>) @@
  ("support" :> <<"s", "u", "p", "p", "o", "r", "t">>) @@
  ("research" :> <<"r", "e", "s", "e", "a", "r", "c", "h">>) @@
  ("data_analysis" :> <<"d", "a", "t", "a", "_", "a", "n", "a", "l", "y", "s", "i", "s">>) @@
  ("data analysis" :> <<"d", "a", "t", "a", " ", "a", "n", "a", "l", "y", "s", "i", "s">>) @@
  ("code_generation" :> <<"c", "o", "d", "e", "_", "g", "e", "n", "e", "r", "a", "t", "i", "o", "n">>) @@
  ("code generation" :> <<"c", "o", "d", "e", " ", "g", "e", "n", "e", "r", "a", "t", "i", "o", "n">>) @@
  ("coding" :> <<"c", "o", "d", "i", "n", "g">>) @@
  ("multi_agent" :> <<"m", "u", "l", "t", "i", "_", "a", "g", "e", "n", "t">>) @@
  ("multi-agent" :> <<"m", "u", "l", "t", "i", "-", "a", "g", "e", "n", "t">>) @@
  ("collaboration" :> <<"c", "o", "l", "l", "a", "b", "o", "r", "a", "t", "i", "o", "n">>) @@
  ("automation" :> <<"a", "u", "t", "o", "m", "a", "t", "i", "o", "n">>) @@
  ("content_creation" :> <<"c", "o", "n", "t", "e", "n", "t", "_", "c", "r", "e", "a", "t", "i", "o", "n">>) @@
  ("content creation" :> <<"c", "o", "n", "t", "e", "n", "t", " ", "c", "r", "e", "a", "t", "i", "o", "n">>) @@
  ("content" :> <<"c", "o", "n", "t", "e", "n", "t">>) @@
  ("video production" :> <<"v", "i", "d", "e", "o", " ", "p", "r", "o", "d", "u", "c", "t", "i", "o", "n">>) @@
  ("video" :> <<"v", "i", "d", "e", "o">>) @@
  ("film" :> <<"f", "i", "l", "m">>) @@
  ("media" :> <<"m", "e", "d", "i", "a">>) @@
  ("production pipeline" :> <<"p", "r", "o", "d", "u", "c", "t", "i", "o", "n", " ", "p", "i", "p", "e", "l", "i", "n", "e">>) @@
  ("creative" :> <<"c", "r", "e", "a", "t", "i", "v", "e">>) @@
  ("storyboard" :> <<"s", "t", "o", "r", "y", "b", "o", "a", "r", "d">>) @@
  ("typescript" :> <<"t", "y", "p", "e", "s", "c", "r", "i", "p", "t">>) @@
  ("nextjs" :> <<"n", "e", "x", "t", "j", "s">>) @@
  ("next.js" :> <<"n", "e", "x", "t", ".", "j", "s">>) @@
  ("vercel" :> <<"v", "e", "r", "c", "e", "l">>) @@
  ("node" :> <<"n", "o", "d", "e">>) @@
  ("javascript" :> <<"j", "a", "v", "a", "s", "c", "r", "i", "p", "t">>) @@
  ("frontend" :> <<"f", "r", "o", "n", "t", "e", "n", "d">>) @@
  ("react" :> <<"r", "e", "a", "c", "t">>) @@
  ("rust" :> <<"r", "u", "s", "t">>) @@
  ("rig" :> <<"r", "i", "g">>) @@
  ("cargo" :> <<"c", "a", "r", "g", "o">>) @@
  ("tokio" :> <<"t", "o", "k", "i", "o">>) @@
  ("systems programming" :> <<"s", "y", "s", "t", "e", "m", "s", " ", "p", "r", "o", "g", "r", "a", "m", "m", "i", "n", "g">>) @@
  ("low-latency" :> <<"l", "o", "w", "-", "l", "a", "t", "e", "n", "c", "y">>) @@
  ("go" :> <<"g", "o">>) @@
  ("golang" :> <<"g", "o", "l", "a", "n", "g">>) @@
  ("adk" :> <<"a", "d", "k">>) @@
  ("google adk" :> <<"g", "o", "o", "g", "l", "e", " ", "a", "d", "k">>) @@
  ("concurrency" :> <<"c", "o", "n", "c", "u", "r", "r", "e", "n", "c", "y">>) @@
  ("goroutine" :> <<"g", "o", "r", "o", "u", "t", "i", "n", "e">>) @@
  ("" :> <<>>) @@
  ("billing" :> <<"b", "i", "l", "l", "i", "n", "g">>) @@
  ("Customer Support " :> <<"C", "u", "s", "t", "o", "m", "e", "r", " ", "S", "u", "p", "p", "o", "r", "t", " ">>) @@
  ("typescript support" :> <<"t", "y", "p", "e", "s", "c", "r", "i", "p", "t", " ", "s", "u", "p", "p", "o", "r", "t">>) @@
  ("algorithm" :> <<"a", "l", "g", "o", "r", "i", "t", "h", "m">>) @@
  ("RESEARCH" :> <<"R", "E", "S", "E", "A", "R", "C", "H">>) @@
  ("CRM " :> <<"C", "R", "M", " ">>) @@
  ("crm" :> <<"c", "r", "m">>) @@
  ("sfdc" :> <<"s", "f", "d", "c">>) @@
  ("slack" :> <<"s", "l", "a", "c", "k">>) @@
  ("fax" :> <<"f", "a", "x">>) @@
  ("github" :> <<"g", "i", "t", "h", "u", "b">>) @@
  ("twilio" :> <<"t", "w", "i", "l", "i", "o">>) @@
  ("google-calendar" :> <<"g", "o", "o", "g", "l", "e", "-", "c", "a", "l", "e", "n", "d", "a", "r">>) @@
  ("email" :> <<"e", "m", "a", "i", "l">>) @@
  ("salesforce" :> <<"s", "a", "l", "e", "s", "f", "o", "r", "c", "e">>) @@
  ("stripe" :> <<"s", "t", "r", "i", "p", "e">>) @@
  ("shopify" :> <<"s", "h", "o", "p", "i", "f", "y">>) @@
  ("notion" :> <<"n", "o", "t", "i", "o", "n">>) @@
  ("linear" :> <<"l", "i", "n", "e", "a", "r">>) @@
  ("jira" :> <<"j", "i", "r", "a">>) @@
  ("discord" :> <<"d", "i", "s", "c", "o", "r", "d">>) @@
  ("telegram" :> <<"t", "e", "l", "e", "g", "r", "a", "m">>) @@
  ("twitter" :> <<"t", "w", "i", "t", "t", "e", "r">>) @@
  ("postgres" :> <<"p", "o", "s", "t", "g", "r", "e", "s">>) @@
  ("mongodb" :> <<"m", "o", "n", "g", "o", "d", "b">>) @@
  ("sqlite" :> <<"s", "q", "l", "i", "t", "e">>) @@
  ("mysql" :> <<"m", "y", "s", "q", "l">>) @@
  ("redis" :> <<"r", "e", "d", "i", "s">>) @@
  ("supabase" :> <<"s", "u", "p", "a", "b", "a", "s", "e">>) @@
  ("snowflake" :> <<"s", "n", "o", "w", "f", "l", "a", "k", "e">>) @@
  ("pinecone" :> <<"p", "i", "n", "e", "c", "o", "n", "e">>) @@
  ("neo4j" :> <<"n", "e", "o", "4", "j">>) @@
  ("google-drive" :> <<"g", "o", "o", "g", "l", "e", "-", "d", "r", "i", "v", "e">>) @@
  ("web-search" :> <<"w", "e", "b", "-", "s", "e", "a", "r", "c", "h">>) @@
  ("arxiv" :> <<"a", "r", "x", "i", "v">>) @@
  ("huggingface" :> <<"h", "u", "g", "g", "i", "n", "g", "f", "a", "c", "e">>) @@
  ("filesystem" :> <<"f", "i", "l", "e", "s", "y", "s", "t", "e", "m">>) @@
  ("git" :> <<"g", "i", "t">>) @@
  ("memory" :> <<"m", "e", "m", "o", "r", "y">>) @@
  ("fetch" :> <<"f", "e", "t", "c", "h">>) @@
  ("docker" :> <<"d", "o", "c", "k", "e", "r">>) @@
  ("kubernetes" :> <<"k", "u", "b", "e", "r", "n", "e", "t", "e", "s">>) @@
  ("sentry" :> <<"s", "e", "n", "t", "r", "y">>) @@
  ("gitlab" :> <<"g", "i", "t", "l", "a", "b">>) @@
  ("puppeteer" :> <<"p", "u", "p", "p", "e", "t", "e", "e", "r">>) @@
  ("playwright" :> <<"p", "l", "a", "y", "w", "r", "i", "g", "h", "t">>) @@
  ("cloudflare" :> <<"c", "l", "o", "u", "d", "f", "l", "a", "r", "e">>) @@
  ("trello" :> <<"t", "r", "e", "l", "l", "o">>) @@
  ("todoist" :> <<"t", "o", "d", "o", "i", "s", "t">>) @@
  ("confluence" :> <<"c", "o", "n", "f", "l", "u", "e", "n", "c", "e">>) @@
  ("tavily" :> <<"t", "a", "v", "i", "l", "y">>) @@
  ("exa" :> <<"e", "x", "a">>) @@
  ("replicate" :> <<"r", "e", "p", "l", "i", "c", "a", "t", "e">>) @@
  ("aws" :> <<"a", "w", "s">>) @@
  ("azure-devops" :> <<"a", "z", "u", "r", "e", "-", "d", "e", "v", "o", "p", "s">>) @@
  ("microsoft-365" :> <<"m", "i", "c", "r", "o", "s", "o", "f", "t", "-", "3", "6", "5">>) @@
  ("bigquery" :> <<"b", "i", "g", "q", "u", "e", "r", "y">>) @@
  ("youtube" :> <<"y", "o", "u", "t", "u", "b", "e">>) @@
  ("airtable" :> <<"a", "i", "r", "t", "a", "b", "l", "e">>) @@
  ("contentful" :> <<"c", "o", "n", "t", "e", "n", "t", "f", "u", "l">>) @@
  ("dynamodb" :> <<"d", "y", "n", "a", "m", "o", "d", "b">>) @@
  ("obsidian" :> <<"o", "b", "s", "i", "d", "i", "a", "n">>) @@
  ("make" :> <<"m", "a", "k", "e">>) @@
  ("postman" :> <<"p", "o", "s", "t", "m", "a", "n">>) @@
  ("sonarqube" :> <<"s", "o", "n", "a", "r", "q", "u", "b", "e">>) @@
  ("home-assistant" :> <<"h", "o", "m", "e", "-", "a", "s", "s", "i", "s", "t", "a", "n", "t">>) @@
  ("spotify" :> <<"s", "p", "o", "t", "i", "f", "y">>) @@
  ("time" :> <<"t", "i", "m", "e">>) @@
  ("sequential-thinking" :> <<"s", "e", "q", "u", "e", "n", "t", "i", "a", "l", "-", "t", "h", "i", "n", "k", "i", "n", "g">>)

UPPER == <<"A", "B", "C", "D", "E", "F", "G", "H", "I", "J", "K", "L", "M",
           "N", "O", "P", "Q", "R", "S", "T", "U", "V", "W", "X", "Y", "Z">>

LOWER == <<"a", "b", "c", "d", "e", "f", "g", "h", "i", "j", "k", "l", "m",
           "n", "o", "p", "q", "r", "s", "t", "u", "v", "w", "x", "y", "z">>

\* str.lower() of one character
lower_char(c) ==
  IF \E i \in 1..Len(UPPER) : UPPER[i] = c
  THEN LOWER[CHOOSE i \in 1..Len(UPPER) : UPPER[i] = c]
  ELSE c

\* str.lower()
lower(cs) == [i \in 1..Len(cs) |-> lower_char(cs[i])]

\* str.strip(): without the blanks at either end
strip(cs) ==
  LET kept == {i \in 1..Len(cs) : cs[i] # " "}
  IN IF kept = {} THEN <<>>
     ELSE SubSeq(cs, CHOOSE i \in kept : \A j \in kept : i <= j,
                     CHOOSE i \in kept : \A j \in kept : j <= i)

\* `keyword in text`
is_substring(keyword, text) ==
  \E i \in 0..(Len(text) - Len(keyword)) : SubSeq(text, i + 1, i + Len(keyword)) = keyword

\* the string with these characters
Unspell(cs) == CHOOSE x \in DOMAIN Chars : Chars[x] = cs

\* term.lower().strip(), for every string of Chars
CanonicalOf == [x \in DOMAIN Chars |-> Unspell(strip(lower(Chars[x])))]

\* term.lower().strip()
Canonical(term) == CanonicalOf[term]

\* _KEYWORD_TO_SERVER_ID: every key of the dict with its server id
KeywordTable ==
   ("salesforce" :> "salesforce") @@ ("sfdc" :> "salesforce") @@
   ("crm" :> "salesforce") @@ ("slack" :> "slack") @@
   ("github" :> "github") @@ ("postgres" :> "postgres") @@
   ("postgresql" :> "postgres") @@ ("sql" :> "postgres") @@
   ("sqlite" :> "sqlite") @@ ("email" :> "email") @@ ("smtp" :> "email") @@
   ("mail" :> "email") @@ ("search" :> "web-search") @@
   ("brave search" :> "web-search") @@ ("google search" :> "web-search") @@
   ("mongo" :> "mongodb") @@ ("mongodb" :> "mongodb") @@
   ("notion" :> "notion") @@ ("drive" :> "google-drive") @@
   ("google drive" :> "google-drive") @@ ("gdrive" :> "google-drive") @@
   ("discord" :> "discord") @@ ("linear" :> "linear") @@ ("jira" :> "jira") @@
   ("atlassian jira" :> "jira") @@ ("filesystem" :> "filesystem") @@
   ("files" :> "filesystem") @@ ("file system" :> "filesystem") @@
   ("arxiv" :> "arxiv") @@ ("papers" :> "arxiv") @@
   ("academic papers" :> "arxiv") @@ ("huggingface" :> "huggingface") @@
   ("hugging face" :> "huggingface") @@ ("hf" :> "huggingface") @@
   ("breach" :> "breach") @@ ("intelligence" :> "breach") @@
   ("facilities" :> "breach") @@ ("defense" :> "breach") @@
   ("military" :> "breach") @@ ("clawbot" :> "breach") @@
   ("research facilities" :> "breach") @@ ("knowledge graph" :> "breach") @@
   ("satellite" :> "breach") @@ ("palantir" :> "breach") @@
   ("fetch" :> "fetch") @@ ("web fetch" :> "fetch") @@
   ("scrape" :> "fetch") @@ ("scraping" :> "fetch") @@ ("git" :> "git") @@
   ("version control" :> "git") @@ ("git log" :> "git") @@
   ("git diff" :> "git") @@ ("memory" :> "memory") @@
   ("remember" :> "memory") @@ ("persistent memory" :> "memory") @@
   ("sequential thinking" :> "sequential-thinking") @@
   ("reasoning" :> "sequential-thinking") @@
   ("chain of thought" :> "sequential-thinking") @@
   ("thinking" :> "sequential-thinking") @@ ("time" :> "time") @@
   ("timezone" :> "time") @@ ("clock" :> "time") @@ ("datetime" :> "time") @@
   ("mysql" :> "mysql") @@ ("mariadb" :> "mysql") @@ ("redis" :> "redis") @@
   ("cache" :> "redis") @@ ("key-value" :> "redis") @@
   ("supabase" :> "supabase") @@ ("supabase db" :> "supabase") @@
   ("snowflake" :> "snowflake") @@ ("data warehouse" :> "snowflake") @@
   ("pinecone" :> "pinecone") @@ ("vector database" :> "pinecone") @@
   ("vector db" :> "pinecone") @@ ("embeddings" :> "pinecone") @@
   ("rag" :> "pinecone") @@ ("neo4j" :> "neo4j") @@
   ("graph database" :> "neo4j") @@ ("cypher" :> "neo4j") @@
   ("twilio" :> "twilio") @@ ("sms" :> "twilio") @@ ("phone" :> "twilio") @@
   ("voice" :> "twilio") @@ ("telegram" :> "telegram") @@
   ("telegram bot" :> "telegram") @@ ("twitter" :> "twitter") @@
   ("x" :> "twitter") @@ ("tweets" :> "twitter") @@
   ("social media" :> "twitter") @@ ("gitlab" :> "gitlab") @@
   ("merge request" :> "gitlab") @@ ("sentry" :> "sentry") @@
   ("error tracking" :> "sentry") @@ ("error monitoring" :> "sentry") @@
   ("docker" :> "docker") @@ ("containers" :> "docker") @@
   ("dockerfile" :> "docker") @@ ("kubernetes" :> "kubernetes") @@
   ("k8s" :> "kubernetes") @@ ("pods" :> "kubernetes") @@
   ("puppeteer" :> "puppeteer") @@ ("browser automation" :> "puppeteer") @@
   ("screenshot" :> "puppeteer") @@ ("playwright" :> "playwright") @@
   ("cross-browser" :> "playwright") @@ ("e2e testing" :> "playwright") @@
   ("cloudflare" :> "cloudflare") @@ ("workers" :> "cloudflare") @@
   ("cdn" :> "cloudflare") @@ ("google calendar" :> "google-calendar") @@
   ("calendar" :> "google-calendar") @@ ("gcal" :> "google-calendar") @@
   ("scheduling" :> "google-calendar") @@ ("trello" :> "trello") @@
   ("kanban" :> "trello") @@ ("boards" :> "trello") @@
   ("todoist" :> "todoist") @@ ("todo" :> "todoist") @@
   ("tasks" :> "todoist") @@ ("confluence" :> "confluence") @@
   ("wiki" :> "confluence") @@ ("atlassian confluence" :> "confluence") @@
   ("tavily" :> "tavily") @@ ("ai search" :> "tavily") @@ ("exa" :> "exa") @@
   ("neural search" :> "exa") @@ ("semantic search" :> "exa") @@
   ("stripe" :> "stripe") @@ ("payments" :> "stripe") @@
   ("billing" :> "stripe") @@ ("subscriptions" :> "stripe") @@
   ("invoices" :> "stripe") @@ ("shopify" :> "shopify") @@
   ("ecommerce" :> "shopify") @@ ("e-commerce" :> "shopify") @@
   ("online store" :> "shopify") @@ ("products" :> "shopify") @@
   ("replicate" :> "replicate") @@ ("image generation" :> "replicate") @@
   ("ml models" :> "replicate") @@ ("stable diffusion" :> "replicate") @@
   ("aws" :> "aws") @@ ("amazon web services" :> "aws") @@ ("s3" :> "aws") @@
   ("lambda" :> "aws") @@ ("ec2" :> "aws") @@ ("cloudformation" :> "aws") @@
   ("cdk" :> "aws") @@ ("bedrock" :> "aws") @@
   ("azure devops" :> "azure-devops") @@
   ("azure pipelines" :> "azure-devops") @@
   ("azure boards" :> "azure-devops") @@ ("azure repos" :> "azure-devops") @@
   ("microsoft 365" :> "microsoft-365") @@
   ("office 365" :> "microsoft-365") @@ ("outlook" :> "microsoft-365") @@
   ("teams" :> "microsoft-365") @@ ("excel" :> "microsoft-365") @@
   ("onedrive" :> "microsoft-365") @@ ("sharepoint" :> "microsoft-365") @@
   ("bigquery" :> "bigquery") @@ ("big query" :> "bigquery") @@
   ("google bigquery" :> "bigquery") @@ ("youtube" :> "youtube") @@
   ("video transcripts" :> "youtube") @@ ("subtitles" :> "youtube") @@
   ("airtable" :> "airtable") @@ ("air table" :> "airtable") @@
   ("contentful" :> "contentful") @@ ("headless cms" :> "contentful") @@
   ("cms" :> "contentful") @@ ("dynamodb" :> "dynamodb") @@
   ("dynamo" :> "dynamodb") @@ ("dynamo db" :> "dynamodb") @@
   ("obsidian" :> "obsidian") @@ ("obsidian notes" :> "obsidian") @@
   ("pkm" :> "obsidian") @@ ("make" :> "make") @@ ("integromat" :> "make") @@
   ("make.com" :> "make") @@ ("postman" :> "postman") @@
   ("api testing" :> "postman") @@ ("api collections" :> "postman") @@
   ("sonarqube" :> "sonarqube") @@ ("sonar" :> "sonarqube") @@
   ("code quality" :> "sonarqube") @@ ("static analysis" :> "sonarqube") @@
   ("home assistant" :> "home-assistant") @@
   ("smart home" :> "home-assistant") @@ ("iot" :> "home-assistant") @@
   ("hass" :> "home-assistant") @@ ("spotify" :> "spotify") @@
   ("music" :> "spotify") @@ ("playlist" :> "spotify")

\* _KEYWORD_TO_SERVER_ID.get(keyword)
KEYWORD_TO_SERVER_ID(keyword) ==
  IF keyword \in DOMAIN KeywordTable THEN KeywordTable[keyword] ELSE None

\* the id of every entry that mcp_registry registers in _SERVERS
CatalogIds ==
  {"postgres", "mongodb", "sqlite", "google-drive", "slack", "email",
   "discord", "github", "filesystem", "notion", "linear", "jira",
   "web-search", "arxiv", "huggingface", "salesforce", "fetch", "git",
   "memory", "sequential-thinking", "time", "mysql", "redis", "supabase",
   "snowflake", "pinecone", "neo4j", "breach", "twilio", "telegram",
   "twitter", "gitlab", "sentry", "docker", "kubernetes", "puppeteer",
   "playwright", "cloudflare", "google-calendar", "trello", "todoist",
   "confluence", "tavily", "exa", "stripe", "shopify", "replicate", "aws",
   "azure-devops", "microsoft-365", "bigquery", "youtube", "airtable",
   "contentful", "dynamodb", "obsidian", "make", "postman", "sonarqube",
   "home-assistant", "spotify", "netlify-deploy", "browser-preview",
   "session-memory", "planning", "integration-health", "deploy-universal"}

\* get_server(server_id) finds an entry
get_server(server_id) == server_id \in CatalogIds

\* resolve_integrations(raw): the entries found, named by their identifier,
\* in order of first occurrence
\* a loop body that appends an entry for every term that resolves
appends_Repeats(server_id, resolved) ==
  server_id # None /\ get_server(server_id)

\* `if server_id and server_id not in seen`, then `if entry`
appends(server_id, resolved) ==
  server_id # None /\ server_id \notin Range(resolved) /\ get_server(server_id)

RECURSIVE resolve_from(_, _, _)
resolve_from(raw, i, resolved) ==
  IF i > Len(raw) THEN resolved
  ELSE LET server_id == KEYWORD_TO_SERVER_ID(Canonical(raw[i]))
       IN IF appends(server_id, resolved)
          THEN resolve_from(raw, i + 1, Append(resolved, server_id))
          ELSE resolve_from(raw, i + 1, resolved)

resolve_integrations(raw) == resolve_from(raw, 1, <<>>)

\* _USECASE_FRAMEWORK.items(), in the order of the dict
UsecaseTable ==
  <<<<"customer_service", "crewai">>, <<"customer service", "crewai">>,
   <<"support", "crewai">>, <<"research", "langgraph">>,
   <<"data_analysis", "langgraph">>, <<"data analysis", "langgraph">>,
   <<"code_generation", "langgraph">>, <<"code generation", "langgraph">>,
   <<"coding", "langgraph">>, <<"multi_agent", "autogen">>,
   <<"multi-agent", "autogen">>, <<"collaboration", "autogen">>,
   <<"automation", "langgraph">>, <<"content_creation", "crewai">>,
   <<"content creation", "crewai">>, <<"content", "crewai">>,
   <<"video production", "crewai">>, <<"video", "crewai">>,
   <<"film", "crewai">>, <<"media", "crewai">>,
   <<"production pipeline", "crewai">>, <<"creative", "crewai">>,
   <<"storyboard", "crewai">>, <<"typescript", "vercel-ai">>,
   <<"nextjs", "vercel-ai">>, <<"next.js", "vercel-ai">>,
   <<"vercel", "vercel-ai">>, <<"node", "vercel-ai">>,
   <<"javascript", "vercel-ai">>, <<"frontend", "vercel-ai">>,
   <<"react", "vercel-ai">>, <<"rust", "rig">>, <<"rig", "rig">>,
   <<"cargo", "rig">>, <<"tokio", "rig">>, <<"systems programming", "rig">>,
   <<"low-latency", "rig">>, <<"go", "adk-go">>, <<"golang", "adk-go">>,
   <<"adk", "adk-go">>, <<"google adk", "adk-go">>,
   <<"concurrency", "adk-go">>, <<"goroutine", "adk-go">>>>

\* use cases handed to pick_framework: naming no trigger, needing lower()
\* and strip(), holding two triggers in the order opposite to the table's,
\* and holding a trigger inside a word
UseCases ==
  {"support", "billing", "Customer Support ", "typescript support", "algorithm", "RESEARCH", "rust"}

\* a scan that returns the framework of the last trigger found
first_trigger_Last(uc) ==
  LET hits == {i \in 1..Len(UsecaseTable) : is_substring(Chars[UsecaseTable[i][1]], uc)}
  IN IF hits = {} THEN None
     ELSE UsecaseTable[CHOOSE i \in hits : \A j \in hits : j <= i][2]

\* `for keyword, fw in _USECASE_FRAMEWORK.items(): if keyword in uc: return fw`
\* (None when the loop ends without a return)
first_trigger(uc) ==
  LET hits == {i \in 1..Len(UsecaseTable) : is_substring(Chars[UsecaseTable[i][1]], uc)}
  IN IF hits = {} THEN None
     ELSE UsecaseTable[CHOOSE i \in hits : \A j \in hits : i <= j][2]

\* the framework the loop of pick_framework returns for each use case
UsecaseFramework == [x \in UseCases |-> first_trigger(strip(lower(Chars[x])))]

USECASE_FRAMEWORK(uc) == UsecaseFramework[uc]

\* a choice that looks at the use case before the preference
pick_framework_UseCaseFirst(reqs) ==
  IF Truthy(reqs.use_case) /\ USECASE_FRAMEWORK(reqs.use_case) # None
  THEN USECASE_FRAMEWORK(reqs.use_case)
  ELSE IF Truthy(reqs.framework_preference) THEN reqs.framework_preference
       ELSE "langgraph"

pick_framework(reqs) ==
  IF Truthy(reqs.framework_preference) THEN reqs.framework_preference
  ELSE IF Truthy(reqs.use_case) /\ USECASE_FRAMEWORK(reqs.use_case) # None
       THEN USECASE_FRAMEWORK(reqs.use_case)
       ELSE "langgraph"

pick_deployment(reqs) ==
  IF Truthy(reqs.deployment_preference) THEN reqs.deployment_preference ELSE "cloud"

\* _default_agents(framework): the roles
default_agents(framework) ==
  CASE framework = "crewai" -> <<"triage", "specialist", "escalation">>
    [] framework = "autogen" -> <<"coordinator", "worker_1", "critic">>
    [] OTHER -> <<"planner", "executor">>

build_recommendation(reqs) ==
  LET framework == pick_framework(reqs)
      deployment == pick_deployment(reqs)
  IN [framework |-> framework,
      agents |-> IF reqs.custom_agents # <<>> THEN reqs.custom_agents
                 ELSE default_agents(framework),
      mcp_servers |-> resolve_integrations(reqs.integrations),
      deployment |-> deployment,
      estimated_monthly_cost |->
        IF deployment = "cloud" THEN "$50-150/month" ELSE "Free (local)"]

\* FrameworkChoice(value) / DeploymentTarget(value) inside try ... except
\* ValueError: pass, for a truthy value
EnumOr(value, enum, otherwise) == IF value \in enum THEN value ELSE otherwise

\* execute_tool("get_framework_recommendation", inp): the requirements are
\* built from the tool input alone.  build_recommendation reads
\* reqs.custom_agents; where ExtractedRequirements has no such attribute the
\* read raises and execute_tool returns an error payload.
exec_get_framework_recommendation(inp) ==
  LET reqs == [use_case |-> inp.use_case,
               description |-> inp.description,
               integrations |-> inp.integrations,
               capabilities |-> inp.capabilities,
               scale |-> inp.scale,
               compliance |-> inp.compliance,
               framework_preference |->
                 IF Truthy(inp.framework_preference)
                 THEN EnumOr(inp.framework_preference, FrameworkChoice, None)
                 ELSE None,
               deployment_preference |->
                 IF Truthy(inp.deployment_preference)
                 THEN EnumOr(inp.deployment_preference, DeploymentTarget, None)
                 ELSE None,
               repo_analysis |-> None,
               custom_agents |-> inp.agents]
  IN IF reqs_extra THEN build_recommendation(reqs)
     ELSE [error |-> "AttributeError"]

\* a merge that replaces a list field by what the request carries
merge_list_Replace(existing, carried) ==
  IF carried # <<>> THEN sorted(Range(carried)) ELSE existing

\* existing = set(field); existing.update(carried); field = sorted(existing)
merge_list(existing, carried) ==
  IF carried # <<>> THEN sorted(Range(existing) \cup Range(carried)) ELSE existing

\* if tool_input.get(name): field = tool_input[name]
merge_scalar(previous, carried) == IF Truthy(carried) THEN carried ELSE previous

\* the updates _extract_recommendation makes to session.requirements
merge_requirements(r, tool_input) ==
  [use_case |-> merge_scalar(r.use_case, tool_input.use_case),
   description |-> merge_scalar(r.description, tool_input.description),
   integrations |-> merge_list(r.integrations, tool_input.integrations),
   capabilities |-> merge_list(r.capabilities, tool_input.capabilities),
   scale |-> merge_scalar(r.scale, tool_input.scale),
   compliance |-> merge_list(r.compliance, tool_input.compliance),
   framework_preference |->
     IF Truthy(tool_input.framework_preference)
     THEN EnumOr(tool_input.framework_preference, FrameworkChoice, r.framework_preference)
     ELSE r.framework_preference,
   deployment_preference |->
     IF Truthy(tool_input.deployment_preference)
     THEN EnumOr(tool_input.deployment_preference, DeploymentTarget, r.deployment_preference)
     ELSE r.deployment_preference,
   repo_analysis |-> r.repo_analysis,
   custom_agents |->
     IF tool_input.agents # <<>> THEN tool_input.agents ELSE r.custom_agents]

\* an extraction that does not look for an error entry
extract_recommendation_NoErrorCheck(data, tool_input, r) ==
  [requirements |-> merge_requirements(r, tool_input), recommendation |-> data]

\* _extract_recommendation(result_str, tool_input, session): the session's
\* requirements as the call leaves them, and the Recommendation it returns.
\* An error payload is answered before anything is merged.
extract_recommendation(data, tool_input, r) ==
  IF "error" \in DOMAIN data
  THEN [requirements |-> r, recommendation |-> NoRecommendation]
  ELSE [requirements |-> merge_requirements(r, tool_input),
        recommendation |-> data]

\* number of fields a request carries
Carried(inp) ==
  Cardinality({f \in {"use_case", "description", "scale", "framework_preference",
                      "deployment_preference"} : inp[f] # None})
  + Cardinality({f \in {"integrations", "capabilities", "compliance", "agents"} :
                      inp[f] # <<>>})

\* the inputs of get_framework_recommendation requests: lists of at most
\* MaxTerms integration terms, at most MaxFields fields carried, and no
\* agents list (the roles are then the defaults of the framework)
ToolInputs ==
  {inp \in [use_case : {None, "", "support"},
            description : {None, "helpdesk"},
            integrations : UNION {[1..n -> Terms] : n \in 0..MaxTerms},
            capabilities : {<<>>, <<"rag">>},
            scale : {None, "high"},
            compliance : {<<>>, <<"hipaa">>},
            framework_preference : {None, "rig", "bogus"},
            deployment_preference : {None, "local", "bogus"},
            agents : {<<>>}] : Carried(inp) <= MaxFields}

\* requirements, recommendation and status of a session after a turn of
\* process_message in which the collaborator asks for
\* get_framework_recommendation once and then replies: the tool runs, the
\* result is extracted, and the turn's last lines store the recommendation
after_turn(w, inp) ==
  LET x == extract_recommendation(exec_get_framework_recommendation(inp), inp,
                                  w.requirements)
  IN IF x.recommendation # NoRecommendation
     THEN [requirements |-> x.requirements,
           recommendation |-> x.recommendation,
           status |-> "recommending"]
     ELSE [w EXCEPT !.requirements = x.requirements]

RecommendationTurn(inp) ==
  /\ wizard' = after_turn(wizard, inp)
  /\ UNCHANGED <<sessions, heap, nextId, turns, resp, api_key, reqs_extra, probe, rounds, db>>

MergeNext == \E inp \in ToolInputs : RecommendationTurn(inp)

\* the collaborator is called only when the API key is configured
InitMerge == Init /\ api_key

SpecMerge == InitMerge /\ [][MergeNext]_vars

\* ---- calls of the recommender's functions --------------------------------

\* terms of the lists handed to resolve_integrations: two synonyms of one
\* server (one of them needing case folding and trimming), a server id, and
\* a term the synonym table does not know
RawTerms == {"CRM ", "sfdc", "slack", "fax"}

RawLists == UNION {[1..n -> RawTerms] : n \in 0..MaxRaw}

\* the server ids SYSTEM_PROMPT tells the collaborator to choose the
\* integrations from
SystemPromptIds ==
  {"slack", "github", "twilio", "google-calendar", "email", "salesforce",
   "stripe", "shopify", "notion", "linear", "jira", "discord", "telegram",
   "twitter", "postgres", "mongodb", "sqlite", "mysql", "redis", "supabase",
   "snowflake", "pinecone", "neo4j", "google-drive", "web-search", "arxiv",
   "huggingface", "filesystem", "git", "memory", "fetch", "docker",
   "kubernetes", "sentry", "gitlab", "puppeteer", "playwright", "cloudflare",
   "trello", "todoist", "confluence", "tavily", "exa", "replicate", "aws",
   "azure-devops", "microsoft-365", "bigquery", "youtube", "airtable",
   "contentful", "dynamodb", "obsidian", "make", "postman", "sonarqube",
   "home-assistant", "spotify", "time", "sequential-thinking"}

\* a caller hands `arg` to the function `fn`
Call(fn, arg) ==
  /\ probe = NoCall
  /\ probe' = [NoCall EXCEPT !.fn = fn, !.arg = arg]
  /\ UNCHANGED <<sessions, heap, nextId, turns, resp, api_key, reqs_extra, wizard, rounds, db>>

\* resolve_integrations(raw) returns
ReturnResolve ==
  /\ probe.fn = "resolve_integrations" /\ ~probe.returned
  /\ probe' = [probe EXCEPT !.returned = TRUE,
                            !.result = resolve_integrations(probe.arg)]
  /\ UNCHANGED <<sessions, heap, nextId, turns, resp, api_key, reqs_extra, wizard, rounds, db>>

\* requirements records handed to pick_framework and build_recommendation:
\* every use case of the model with every framework and deployment
\* preference, no integration or one, default or custom agents
RequirementRecords ==
  {[ExtractedRequirements EXCEPT
      !.use_case = uc, !.framework_preference = fw,
      !.deployment_preference = dep, !.integrations = raw,
      !.custom_agents = agents] :
     uc \in {None, ""} \cup UseCases,
     fw \in {None} \cup FrameworkChoice,
     dep \in {None} \cup DeploymentTarget,
     raw \in {<<>>} \cup {<<t>> : t \in RawTerms},
     agents \in {<<>>, <<"reviewer">>}}

\* pick_framework(reqs) returns
ReturnPick ==
  /\ probe.fn = "pick_framework" /\ ~probe.returned
  /\ probe' = [probe EXCEPT !.returned = TRUE, !.result = pick_framework(probe.arg)]
  /\ UNCHANGED <<sessions, heap, nextId, turns, resp, api_key, reqs_extra, wizard, rounds, db>>

\* build_recommendation(reqs) returns, or raises at the read of
\* reqs.custom_agents where ExtractedRequirements has no such attribute
ReturnBuild ==
  /\ probe.fn = "build_recommendation" /\ ~probe.returned
  /\ probe' = IF reqs_extra
              THEN [probe EXCEPT !.returned = TRUE,
                                 !.result = build_recommendation(probe.arg)]
              ELSE [probe EXCEPT !.returned = TRUE, !.raised = "AttributeError"]
  /\ UNCHANGED <<sessions, heap, nextId, turns, resp, api_key, reqs_extra, wizard, rounds, db>>

RecommenderNext ==
  \/ \E raw \in RawLists : Call("resolve_integrations", raw)
  \/ \E id \in SystemPromptIds : Call("resolve_integrations", <<id>>)
  \/ \E reqs \in RequirementRecords : Call("pick_framework", reqs)
  \/ \E reqs \in RequirementRecords : Call("build_recommendation", reqs)
  \/ ReturnResolve
  \/ ReturnPick
  \/ ReturnBuild

SpecRecommender == Init /\ [][RecommenderNext]_vars

\* ---- the tool rounds of a chat turn: process_message ------------------------

\* a tool result with no error entry, for the tools other than
\* get_framework_recommendation
Payload == [url |-> "repo"]

\* the recommendation requests of the turns of SpecRounds
RoundInputs ==
  {inp \in ToolInputs :
     \/ /\ inp.integrations = <<"fax">>
        /\ Carried(inp) = 1
     \/ /\ inp.use_case = "support" /\ inp.capabilities = <<"rag">>
        /\ Carried(inp) = 2
     \/ /\ inp.framework_preference = "rig"
        /\ Carried(inp) = 1}

\* the tool_use blocks of a collaborator response, one a round: a
\* recommendation request, a repository analysis that succeeds or fails, or
\* a tool name execute_tool does not know
ToolCalls ==
  {[name |-> "get_framework_recommendation", input |-> inp, fails |-> FALSE] :
     inp \in RoundInputs}
  \cup {[name |-> "analyze_repository", input |-> <<>>, fails |-> f] : f \in BOOLEAN}
  \cup {[name |-> "no_such_tool", input |-> <<>>, fails |-> FALSE]}

\* execute_tool(name, input): the parsed result string.  Every exception of
\* a tool is caught and answered as an error payload.
execute_tool(tc) ==
  CASE tc.name = "get_framework_recommendation" ->
         exec_get_framework_recommendation(tc.input)
    [] tc.name = "analyze_repository" ->
         IF tc.fails THEN [error |-> "ConnectError"] ELSE Payload
    [] OTHER -> [error |-> "Unknown tool"]

\* _extract_repo_analysis(result_str, session, tool_input): the requirements
\* as the call leaves them
extract_repo_analysis(data, r) ==
  IF "error" \in DOMAIN data THEN r ELSE [r EXCEPT !.repo_analysis = data.url]

\* a save that stores the session as the turn found it
saved_Snapshot(held, found) == found

\* sessions.get(session_id) hands out the stored object itself and
\* sessions.save(session) stores it back: what is saved is the held object
saved(held, found) == held

\* "Get or create session", the API key check and the user message: the turn
\* resolves the stored session and suspends in the first collaborator call
RoundBegin(t) ==
  /\ rounds.turn[t].pc = "idle"
  /\ rounds' =
       [messages |-> Append(rounds.messages, <<"user", t>>),
        turn |-> [u \in TwoTurns |->
                    IF u = t
                    THEN [IdleRound EXCEPT
                            !.pc = "calling", !.before = wizard,
                            !.alone = \A v \in TwoTurns : rounds.turn[v].pc # "calling"]
                    ELSE IF rounds.turn[u].pc = "calling"
                         THEN [rounds.turn[u] EXCEPT !.alone = FALSE]
                         ELSE rounds.turn[u]]]
  /\ UNCHANGED <<sessions, heap, nextId, turns, resp, api_key, reqs_extra, wizard, probe, db>>

\* a collaborator response with a tool_use block: the tool runs, its result
\* is appended for the next collaborator call, and the recommendation or the
\* repository analysis is extracted into the session
RoundTool(t, tc) ==
  LET me == rounds.turn[t]
      data == execute_tool(tc)
      x == IF tc.name = "get_framework_recommendation"
           THEN extract_recommendation(data, tc.input, wizard.requirements)
           ELSE [requirements |->
                   IF tc.name = "analyze_repository"
                   THEN extract_repo_analysis(data, wizard.requirements)
                   ELSE wizard.requirements,
                 recommendation |-> me.recommendation]
  IN /\ me.pc = "calling"
     /\ LoopCalls(me.round)
     /\ me.round < MaxBurstRounds
     /\ wizard' = [wizard EXCEPT !.requirements = x.requirements]
     /\ rounds' =
          [rounds EXCEPT
             !.turn[t].round = @ + 1,
             !.turn[t].recommendation = x.recommendation,
             !.turn[t].results =
                Append(@, [name |-> tc.name, error |-> "error" \in DOMAIN data]),
             !.turn[t].merged =
                IF tc.name = "get_framework_recommendation" /\ "error" \notin DOMAIN data
                THEN @ \cup {tc.input} ELSE @,
             !.turn[t].analysed =
                @ \/ (tc.name = "analyze_repository" /\ "error" \notin DOMAIN data)]
     /\ UNCHANGED <<sessions, heap, nextId, turns, resp, api_key, reqs_extra, probe, db>>

\* a collaborator response without tool_use blocks: the reply is appended,
\* a recommendation of this turn is stored with status recommending, and
\* the session is saved
RoundReply(t) ==
  LET me == rounds.turn[t]
      held == IF me.recommendation # NoRecommendation
              THEN [wizard EXCEPT !.status = "recommending",
                                  !.recommendation = me.recommendation]
              ELSE wizard
  IN /\ me.pc = "calling"
     /\ wizard' = saved(held, me.before)
     /\ rounds' = [rounds EXCEPT
                     !.messages = Append(@, <<"assistant", t>>),
                     !.turn[t].pc = "done",
                     !.turn[t].reply = ReplyText(me.round)]
     /\ UNCHANGED <<sessions, heap, nextId, turns, resp, api_key, reqs_extra, probe, db>>

\* a collaborator call raises: the error reply is appended and the session
\* is saved
RoundError(t, exc) ==
  LET me == rounds.turn[t]
  IN /\ me.pc = "calling"
     /\ LoopCalls(me.round)
     /\ wizard' = saved(wizard, me.before)
     /\ rounds' = [rounds EXCEPT
                     !.messages = Append(@, <<"assistant", t>>),
                     !.turn[t].pc = "done",
                     !.turn[t].reply =
                        IF exc = "AuthenticationError" THEN "invalid-key" ELSE "generic"]
     /\ UNCHANGED <<sessions, heap, nextId, turns, resp, api_key, reqs_extra, probe, db>>

RoundsNext ==
  \/ \E t \in TwoTurns : RoundBegin(t)
  \/ \E t \in TwoTurns, tc \in ToolCalls : RoundTool(t, tc)
  \/ \E t \in TwoTurns : RoundReply(t)
  \/ \E t \in TwoTurns, exc \in Exceptions : RoundError(t, exc)

SpecRounds == InitMerge /\ [][RoundsNext]_vars

\* ---- POST /billing/use ----------------------------------------------------

\* `user = await db.users.find_one(...)`: the handler reads the user
\* document and holds its usage_count
UseFind(h) ==
  /\ db.use[h].pc = "idle"
  /\ db' = [db EXCEPT !.use[h] = [pc |-> "found", usage_count |-> db.usage_count]]
  /\ UNCHANGED <<sessions, heap, nextId, turns, resp, api_key, reqs_extra, wizard, probe, rounds>>

\* the held usage_count has reached the limit: allowed=false
UseRefuse(h) ==
  /\ db.use[h].pc = "found"
  /\ db.use[h].usage_count >= free_usage_limit
  /\ db' = [db EXCEPT !.use[h] = [pc |-> "idle", usage_count |-> 0]]
  /\ UNCHANGED <<sessions, heap, nextId, turns, resp, api_key, reqs_extra, wizard, probe, rounds>>

\* below the limit: `update_one({"$inc": {"usage_count": 1}})`, allowed=true
UseIncrement(h) ==
  /\ db.use[h].pc = "found"
  /\ db.use[h].usage_count < free_usage_limit
  /\ db' = [db EXCEPT !.usage_count = @ + 1, !.allowed = @ + 1,
                      !.use[h] = [pc |-> "idle", usage_count |-> 0]]
  /\ UNCHANGED <<sessions, heap, nextId, turns, resp, api_key, reqs_extra, wizard, probe, rounds>>

BillingNext ==
  \/ \E h \in Uses : UseFind(h)
  \/ \E h \in Uses : UseRefuse(h)
  \/ \E h \in Uses : UseIncrement(h)

SpecBilling == Init /\ [][BillingNext]_vars

\* ---- POST /auth/verify ------------------------------------------------------

\* the clock passes the token's expires_at
Expire ==
  /\ ~db.expired
  /\ db' = [db EXCEPT !.expired = TRUE]
  /\ UNCHANGED <<sessions, heap, nextId, turns, resp, api_key, reqs_extra, wizard, probe, rounds>>

\* `doc = await db.magic_tokens.find_one({"token": token, "used": False})`:
\* no document, and the call returns None, or the handler holds the document
VerifyFind(h) ==
  /\ db.verify[h] = "idle"
  /\ db' = [db EXCEPT !.verify[h] = IF db.used THEN "none" ELSE "found"]
  /\ UNCHANGED <<sessions, heap, nextId, turns, resp, api_key, reqs_extra, wizard, probe, rounds>>

\* the expiry test: None for an expired token, else the document is marked
\* used
VerifyMark(h) ==
  /\ db.verify[h] = "found"
  /\ db' = IF db.expired
           THEN [db EXCEPT !.verify[h] = "none"]
           ELSE [db EXCEPT !.used = TRUE, !.verify[h] = "marked"]
  /\ UNCHANGED <<sessions, heap, nextId, turns, resp, api_key, reqs_extra, wizard, probe, rounds>>

\* last_login is updated and the email is returned: verify sets the cookie
VerifyReturn(h) ==
  /\ db.verify[h] = "marked"
  /\ db' = [db EXCEPT !.verify[h] = "email", !.accepted = @ + 1]
  /\ UNCHANGED <<sessions, heap, nextId, turns, resp, api_key, reqs_extra, wizard, probe, rounds>>

AuthNext ==
  \/ Expire
  \/ \E h \in Verifies : VerifyFind(h)
  \/ \E h \in Verifies : VerifyMark(h)
  \/ \E h \in Verifies : VerifyReturn(h)

SpecAuth == Init /\ [][AuthNext]_vars

\* ==== properties ==========================================================

\* a session some handler can still reach: stored, or held by a suspended turn
Live(keys, trns, id) ==
  id \in Keys(keys) \/ (\E t \in Turns : trns[t].pc = "calling" /\ trns[t].session = id)

C3_FailureRollsBack ==
  resp.op = "confirm" =>
    /\ \A id \in Keys(sessions) : heap[id].status # "generating"
    /\ resp.detail = "Code generation failed" =>
         /\ resp.code = 500
         /\ resp.sid \in Keys(sessions)
         /\ heap[resp.sid].status = "confirmed"

C3_Witness ==
  /\ resp.op = "confirm"
  /\ resp.detail = "Code generation failed"
  /\ heap[resp.sid].status = "confirmed"

\* C4: a confirm call that finds its session in a status other than
\* recommending and confirmed answers 400 with that status in the message and
\* changes neither the session nor the store
C4_RejectedConfirmChangesNothing ==
  [][(/\ resp'.op = "confirm"
      /\ GetResult(sessions, heap, now, resp'.sid) = "found"
      /\ heap[resp'.sid].status \notin {"recommending", "confirmed"})
        => /\ resp'.code = 400
           /\ resp'.detail = heap[resp'.sid].status
           /\ heap' = heap
           /\ sessions' = sessions]_vars

C4_Witness ==
  /\ resp.op = "confirm"
  /\ resp.code = 400
  /\ resp.detail = "gathering"
  /\ resp.sid \in Keys(sessions)
  /\ heap[resp.sid].status = "gathering"

\* C5: a live session is in gathering exactly when it holds no recommendation;
\* a recommendation appears only together with status recommending, and a
\* session holding one keeps one and never returns to gathering
C5_GatheringIffNoRecommendation ==
  /\ [](\A id \in Ids : Live(sessions, turns, id) =>
          (heap[id].status = "gathering" <=> heap[id].recommendation = "none"))
  /\ [][\A id \in Ids :
          (Live(sessions, turns, id) /\ Live(sessions', turns', id)) =>
             /\ (heap[id].recommendation = "none" /\ heap'[id].recommendation # "none")
                   => heap'[id].status = "recommending"
             /\ heap[id].recommendation # "none"
                   => (heap'[id].recommendation # "none" /\ heap'[id].status # "gathering")]_vars

C5_Witness ==
  \E id \in Keys(sessions) :
     heap[id].recommendation # "none" /\ heap[id].status = "confirmed"

\* the store after n create() calls on an empty store as C6 describes it: the
\* last min(n, max_count) sessions created, none saved, none past the TTL
CreatedInSequence ==
  LET n == nextId - 1
      k == IF n < MaxCount THEN n ELSE MaxCount
  IN /\ Len(sessions) = k
     /\ \A i \in 1..k : sessions[i] = n - k + i
     /\ \A id \in Keys(sessions) : ~heap[id].aware /\ now - heap[id].updated_at <= Ttl

\* C6: each create() of a sequence of create() calls on an empty store
\* returns a new session and leaves the store holding the max_count most
\* recently created ones
C6_CreateSequenceKeepsNewest ==
  [][(CreatedInSequence /\ resp'.op = "create")
        => (resp'.code = 200 /\ resp'.sid = nextId /\ CreatedInSequence')]_vars

\* C7: create() on a store of exactly max_count unexpired sessions removes one
\* session of smallest updated-at, keeps the others and adds the new one
C7_CreateEvictsOldest ==
  [][(/\ resp'.op = "create"
      /\ Len(sessions) = MaxCount
      /\ \A id \in Keys(sessions) : now - heap[id].updated_at <= Ttl)
        => /\ resp'.code = 200
           /\ \E v \in Keys(sessions) :
                /\ \A o \in Keys(sessions) : heap[v].updated_at <= heap[o].updated_at
                /\ Keys(sessions') = (Keys(sessions) \ {v}) \cup {resp'.sid}]_vars

C9_CountWithinCapPlusInFlight ==
  Len(sessions) <= MaxCount + Cardinality(InFlight)

\* a turn is suspended in the collaborator call with the session it created
\* stored and not yet saved
SuspendedUnsaved ==
  \E t \in Turns :
     /\ turns[t].pc = "calling"
     /\ turns[t].session \in Keys(sessions)
     /\ ~heap[turns[t].session].aware

\* C10: while a turn is suspended with its new session stored and unsaved, no
\* create(), get() or list_sessions() call of another request raises
C10_OthersDoNotRaise ==
  [][SuspendedUnsaved => resp'.detail # "TypeError"]_vars

\* the identifier a request names: the path parameter of get, delete and
\* confirm, the session_id of a chat request (0 when it carries none)
NamedId(r) ==
  IF r.op \in {"get", "delete", "confirm"} THEN r.sid
  ELSE IF r.op \in {"chat", "await"} THEN r.named
  ELSE 0

\* C11: a request naming an identifier that is unknown, expired or deleted is
\* answered not-found, and an identifier that was removed from the store is
\* never a key of the store again
C11_AbsentStaysAbsent ==
  [][/\ (NamedId(resp') # 0 /\ GetResult(sessions, heap, now, NamedId(resp')) = "absent")
          => resp'.code = 404
     /\ \A id \in Ids :
          (id < nextId /\ id \notin Keys(sessions)) => id \notin Keys(sessions')]_vars

\* C12: a turn makes at most max_tool_rounds collaborator calls and comes to
\* an end; it ends with status 200, and when every round asked for tools its
\* reply is the summary message, given after the last round without a
\* further call; the collaborator's text is the reply only of a turn that
\* ended inside the loop
C12_TurnEndsWithinFiveCalls ==
  /\ [](\A t \in Turns : turns[t].calls <= max_tool_rounds)
  /\ [][\A t \in Turns :
          (turns[t].pc = "calling" /\ turns'[t].pc = "idle") =>
             /\ resp'.op = "chat" /\ resp'.code = 200
             /\ turns[t].round = max_tool_rounds =>
                  (resp'.reply = "summary" /\ turns[t].calls = max_tool_rounds)
             /\ turns[t].round < max_tool_rounds =>
                  resp'.reply \in {"text", "invalid-key", "generic"}]_vars
  /\ \A t \in Turns : (turns[t].pc = "calling") ~> (turns[t].pc = "idle")

C12_Witness ==
  /\ resp.op = "chat"
  /\ resp.reply = "summary"
  /\ resp.sid \in Keys(sessions)

\* the step is the first of a chat turn: it answers a chat request and ends
\* no collaborator call of a turn in flight
BeginsTurn ==
  /\ resp'.op \in {"chat", "await"}
  /\ \A t \in Turns : turns[t].pc = "calling" => turns'[t] = turns[t]

\* number of messages of a role among those a step appended
Appended(r, role) == Cardinality({i \in 1..Len(r.appended) : r.appended[i] = role})

\* C17: a chat turn begins by appending the user message, whatever happens
\* while its session is resolved or created, and ends with a reply returned
\* (status 200, never a raised error), exactly one assistant message appended
\* and the session saved
C17_TurnAlwaysReplies ==
  [][/\ BeginsTurn =>
          (resp'.appended # <<>> /\ resp'.appended[1] = "user")
     /\ resp'.op = "chat" =>
          /\ resp'.code = 200
          /\ resp'.reply # ""
          /\ Appended(resp', "assistant") = 1
          /\ resp'.appended[Len(resp'.appended)] = "assistant"
          /\ resp'.sid \in Keys(sessions')
          /\ heap'[resp'.sid].aware
          /\ heap'[resp'.sid].updated_at = now]_vars

\* number of done events among the events of a step
Dones(r) == Cardinality({i \in 1..Len(r.trace) : r.trace[i] = "done"})

\* C18: the step that ends a streamed turn yields exactly one done event, as
\* its last event, and no other step of a turn yields one; a tool is executed
\* only after a status event of the same collaborator response
C18_OneDoneEventLast ==
  [][/\ resp'.op = "chat" =>
          /\ Dones(resp') = 1
          /\ resp'.trace[Len(resp'.trace)] = "done"
     /\ resp'.op = "await" => Dones(resp') = 0
     /\ \A i \in 1..Len(resp'.trace) :
          resp'.trace[i] = "exec" => \E j \in 1..(i - 1) : resp'.trace[j] = "status"]_vars

ListFields == {"integrations", "capabilities", "compliance"}

ScalarFields == {"use_case", "description", "scale"}

NoDuplicates(seq) == Cardinality(Range(seq)) = Len(seq)

\* C14: merging a recommendation request into the requirements of a session
\* removes nothing from integrations, capabilities and compliance and leaves
\* them without duplicates; merging the same request a second time changes
\* nothing; use_case, description and scale take the value the request
\* carries (a non-empty string) and keep their value when it carries none
C14_MergeAddsAndOverwrites ==
  /\ [](\A inp \in ToolInputs :
          LET r == wizard.requirements
              m == merge_requirements(r, inp)
          IN /\ \A f \in ListFields :
                  /\ Range(r[f]) \cup Range(inp[f]) = Range(m[f])
                  /\ NoDuplicates(m[f])
             /\ merge_requirements(m, inp) = m
             /\ \A f \in ScalarFields :
                  m[f] = IF Truthy(inp[f]) THEN inp[f] ELSE r[f])
  /\ [][\A f \in ListFields :
          /\ Range(wizard.requirements[f]) \subseteq Range(wizard'.requirements[f])
          /\ NoDuplicates(wizard'.requirements[f])]_vars

\* two requests have been merged: both integration terms are stored, with a
\* capability and a use case
C14_Witness ==
  /\ wizard.requirements.integrations = <<"CRM ", "fax">>
  /\ wizard.requirements.capabilities = <<"rag">>
  /\ wizard.requirements.use_case = "support"

\* a preference a request carries that is no member of the enum
Invalid(value, enum) == Truthy(value) /\ value \notin enum

\* C15: a recommendation request whose framework or deployment preference is
\* no member of the enum leaves that field of the session's requirements at
\* its previous value, has its other carried fields merged, and the turn
\* yields a recommendation and leaves the session recommending
C15_InvalidPreferenceIgnored ==
  \A inp \in ToolInputs :
    LET bad_fw == Invalid(inp.framework_preference, FrameworkChoice)
        bad_dep == Invalid(inp.deployment_preference, DeploymentTarget)
        r == wizard.requirements
        after == after_turn(wizard, inp)
        m == after.requirements
    IN (bad_fw \/ bad_dep) =>
         /\ bad_fw => m.framework_preference = r.framework_preference
         /\ bad_dep => m.deployment_preference = r.deployment_preference
         /\ (Truthy(inp.framework_preference) /\ ~bad_fw) =>
               m.framework_preference = inp.framework_preference
         /\ (Truthy(inp.deployment_preference) /\ ~bad_dep) =>
               m.deployment_preference = inp.deployment_preference
         /\ \A f \in ListFields : Range(inp[f]) \subseteq Range(m[f])
         /\ \A f \in ScalarFields : Truthy(inp[f]) => m[f] = inp[f]
         /\ after.recommendation # NoRecommendation
         /\ after.status = "recommending"

ServerOf(term) == KEYWORD_TO_SERVER_ID(Canonical(term))

\* position of the first term of raw that stands for server_id
FirstAt(raw, server_id) ==
  CHOOSE i \in 1..Len(raw) :
    /\ ServerOf(raw[i]) = server_id
    /\ \A j \in 1..(i - 1) : ServerOf(raw[j]) # server_id

\* C21: resolve_integrations returns one entry for each distinct server id
\* that a term of the list maps to through the synonym table and that the
\* catalog holds, in order of first occurrence and without duplicates; terms
\* without a synonym entry contribute nothing
C21_ResolveDistinctInOrder ==
  (probe.fn = "resolve_integrations" /\ probe.returned) =>
    LET raw == probe.arg
        out == probe.result
    IN /\ Range(out) = {ServerOf(t) : t \in Range(raw)} \cap CatalogIds
       /\ NoDuplicates(out)
       /\ \A i, j \in 1..Len(out) :
            i < j => FirstAt(raw, out[i]) < FirstAt(raw, out[j])
       /\ (\A t \in Range(raw) : ServerOf(t) = None) => out = <<>>

\* a list with two synonyms of one server around another server and an
\* unknown term has been resolved
C21_Witness ==
  /\ probe.fn = "resolve_integrations" /\ probe.returned
  /\ probe.arg = <<"sfdc", "slack", "CRM ">>
  /\ probe.result = <<"salesforce", "slack">>

Triggered(i, text) == is_substring(Chars[UsecaseTable[i][1]], text)

\* C23: without a framework preference, pick_framework returns the framework
\* of the first trigger, in the table's order, that is a substring of the
\* lower-cased use case, and langgraph when no trigger is one or there is
\* no use case
C23_FirstTriggerInTableOrder ==
  (probe.fn = "pick_framework" /\ probe.returned
     /\ probe.arg.framework_preference = None) =>
    IF ~Truthy(probe.arg.use_case)
    THEN probe.result = "langgraph"
    ELSE LET text == strip(lower(Chars[probe.arg.use_case]))
         IN \/ /\ \A i \in 1..Len(UsecaseTable) : ~Triggered(i, text)
               /\ probe.result = "langgraph"
            \/ \E i \in 1..Len(UsecaseTable) :
                 /\ Triggered(i, text)
                 /\ \A j \in 1..(i - 1) : ~Triggered(j, text)
                 /\ probe.result = UsecaseTable[i][2]

\* the use case names typescript before support; support comes first in the
\* table and decides
C23_Witness ==
  /\ probe.fn = "pick_framework" /\ probe.returned
  /\ probe.arg.framework_preference = None
  /\ probe.arg.use_case = "typescript support"
  /\ probe.result = "crewai"

\* C24: build_recommendation of an empty requirements object raises nothing
\* and returns framework langgraph with its default roles, no integrations
\* and deployment cloud
C24_EmptyRequirementsBuild ==
  (probe.fn = "build_recommendation" /\ probe.returned
     /\ probe.arg = ExtractedRequirements) =>
    /\ probe.raised = None
    /\ probe.result.framework = "langgraph"
    /\ probe.result.agents = default_agents("langgraph")
    /\ probe.result.mcp_servers = <<>>
    /\ probe.result.deployment = "cloud"

\* C28: every server id that SYSTEM_PROMPT lists names a catalog entry, and
\* resolve_integrations of the list holding that id alone returns exactly
\* that entry
C28_PromptIdsResolveToThemselves ==
  /\ SystemPromptIds \subseteq CatalogIds
  /\ (probe.fn = "resolve_integrations" /\ probe.returned
        /\ Len(probe.arg) = 1 /\ probe.arg[1] \in SystemPromptIds) =>
       probe.result = probe.arg

\* the tool names execute_tool dispatches on
ToolNames ==
  {"search_mcp_servers", "get_mcp_server_details", "search_templates",
   "analyze_repository", "get_framework_recommendation"}

\* every tool result of the turn is an error payload
AllFailed(me) == \A i \in 1..Len(me.results) : me.results[i].error

\* C25: a tool call always gives the turn a result; for an unknown tool name
\* or a failure inside a tool it is an error payload, the turn appends it as
\* the tool's result and goes on with the round loop, and the failed call
\* leaves the session's status and recommendation as they were, also once
\* the turn has replied
C25_FailedToolFedBack ==
  [][\A t \in TwoTurns :
       LET me == rounds.turn[t]
           after == rounds'.turn[t]
       IN /\ Len(after.results) > Len(me.results) =>
               LET res == after.results[Len(after.results)]
               IN /\ after.results = Append(me.results, res)
                  /\ res.name \notin ToolNames => res.error
                  /\ res.error =>
                       /\ wizard'.status = wizard.status
                       /\ wizard'.recommendation = wizard.recommendation
                       /\ after.pc = "calling"
                       /\ after.round = me.round + 1
          /\ (me.pc = "calling" /\ after.pc = "done" /\ AllFailed(me)) =>
               /\ wizard'.status = wizard.status
               /\ wizard'.recommendation = wizard.recommendation]_vars

\* a turn whose recommendation request failed has gone on and replied with
\* the collaborator's text
C25_Witness ==
  \E t \in TwoTurns :
    /\ rounds.turn[t].pc = "done" /\ rounds.turn[t].reply = "text"
    /\ rounds.turn[t].results =
         <<[name |-> "get_framework_recommendation", error |-> TRUE]>>

\* number of messages of the role that the turn appended
Count(messages, role, t) ==
  Cardinality({i \in 1..Len(messages) : messages[i] = <<role, t>>})

\* the recommendation requests that either turn merged
Merged == UNION {rounds.turn[t].merged : t \in TwoTurns}

\* the turn ended in its last lines, not in an except branch, with a
\* recommendation in hand
Recommended(t) ==
  /\ rounds.turn[t].reply \in {"text", "summary"}
  /\ rounds.turn[t].recommendation # NoRecommendation

\* C26: when two turns on the same stored session have run concurrently and
\* both have ended, the transcript holds the user message and the reply of
\* each, every element and scalar that either turn merged is in the
\* requirements, a repository analysis either stored is there, and a
\* recommendation that either turn ended with is stored
C26_ConcurrentTurnsLoseNothing ==
  (\A t \in TwoTurns : rounds.turn[t].pc = "done") =>
    /\ Len(rounds.messages) = 2 * Cardinality(TwoTurns)
    /\ \A t \in TwoTurns :
         Count(rounds.messages, "user", t) = 1 /\ Count(rounds.messages, "assistant", t) = 1
    /\ \A inp \in Merged : \A f \in ListFields :
         Range(inp[f]) \subseteq Range(wizard.requirements[f])
    /\ \A f \in ScalarFields \cup {"framework_preference"} :
         (\E inp \in Merged : Truthy(inp[f])) =>
            \E inp \in Merged : wizard.requirements[f] = inp[f]
    /\ (\E t \in TwoTurns : rounds.turn[t].analysed) =>
         wizard.requirements.repo_analysis # None
    /\ (\E t \in TwoTurns : Recommended(t)) =>
         /\ wizard.status = "recommending"
         /\ \E t \in TwoTurns :
              Recommended(t) /\ wizard.recommendation = rounds.turn[t].recommendation

\* both turns began before either ended, each merged a request of its own,
\* and both have replied
C26_Witness ==
  /\ \A t \in TwoTurns : rounds.turn[t].pc = "done" /\ ~rounds.turn[t].alone
  /\ rounds.messages[1][1] = "user" /\ rounds.messages[2][1] = "user"
  /\ rounds.turn[1].merged # {} /\ rounds.turn[2].merged # {}
  /\ rounds.turn[1].merged # rounds.turn[2].merged

\* C27: a turn that ends with the invalid-key or the generic error reply,
\* with no other turn under way meanwhile, leaves the session's
\* requirements, status and recommendation as the turn found them and adds
\* its user message and its error reply to the transcript
C27_ErrorTurnChangesNothing ==
  [][\A t \in TwoTurns :
       LET me == rounds.turn[t]
           after == rounds'.turn[t]
       IN (me.pc = "calling" /\ after.pc = "done" /\ me.alone
             /\ after.reply \in {"invalid-key", "generic"}) =>
            /\ wizard' = me.before
            /\ Count(rounds'.messages, "user", t) = 1
            /\ Count(rounds'.messages, "assistant", t) = 1]_vars

\* C29: the stored usage_count of a user on the free plan never exceeds
\* free_usage_limit, and increment_usage has answered allowed=true at most
\* free_usage_limit times
C29_FreeLimitHolds ==
  db.usage_count <= free_usage_limit /\ db.allowed <= free_usage_limit

\* a handler holds the token document and the clock has passed expires_at
HoldsExpired(h) == db.verify[h] = "found" /\ db.expired

\* C30: verify_magic_token returns the email of a token at most once, and
\* a verification whose expiry test runs after the expiry time returns none
C30_TokenAcceptedOnce ==
  /\ [](db.accepted <= 1)
  /\ [][\A h \in Verifies : HoldsExpired(h) => db'.verify[h] \in {"found", "none"}]_vars

====
